---- MODULE Spec2Model ----
(***************************************************************************)
(* Model of distributed/comm/core.py: the scheme registries, the           *)
(* deadline-bounded retry loop of connect(), the listen() factory and the  *)
(* scoped start/stop of a Listener.                                        *)
(*                                                                         *)
(* Time is a discrete clock `now`.  One tick is half of the retry sleep    *)
(* (RetryInterval = 2 ticks = 0.01 s).  The IOLoop timers (gen.sleep and   *)
(* gen.with_timeout) fire at their due time: the clock does not advance    *)
(* past a due timer.  A coroutine runs atomically between two yields.      *)
(***************************************************************************)
EXTENDS Integers, Sequences, FiniteSets, TLC

\* ------------------------------------------------------------------ bounds
MaxTimeout == 5          \* connect timeouts are drawn from 0..MaxTimeout
MaxStart == 1            \* a connect call starts at a clock value <= MaxStart
MaxListens == 2          \* number of listen() calls
MaxMethodCalls == 2      \* start()/stop() calls a caller makes on a Listener
MaxComms == 2            \* connections that arrive at a Listener

\* -------------------------------------------------------- program constants
RetryInterval == 2       \* gen.sleep(0.01), in ticks

MaxNow == MaxStart + MaxTimeout + RetryInterval + 1

None == "None"
NoTime == 0 - 1

Calls == {1, 2}
Schemes == {"tcp", "zmq"}
Addrs == {"tcp://a", "tcp://b", "zmq://a", "a:1"}
ErrTexts == {"", "refused", "reset"}
OtherErrors == {"TypeError"}
Handlers == {"h1", "h2"}
Placeholder == "connect() didn't finish in time"

VARIABLES connectors, listeners, now, call, lsn, lres, comms

vars == <<connectors, listeners, now, call, lsn, lres, comms>>

\* ------------------------------------------------------- address parsing
\* parse_address(addr): "scheme://loc" -> (scheme, loc); a string without
\* the separator is a parse error.
ParseAddress(addr) ==
    CASE addr = "tcp://a" -> [ok |-> TRUE, scheme |-> "tcp", loc |-> "a"]
      [] addr = "tcp://b" -> [ok |-> TRUE, scheme |-> "tcp", loc |-> "b"]
      [] addr = "zmq://a" -> [ok |-> TRUE, scheme |-> "zmq", loc |-> "a"]
      [] OTHER -> [ok |-> FALSE, scheme |-> None, loc |-> None]

\* dict.get(scheme): the registered value, or None
Get(dict, scheme) == IF scheme \in DOMAIN dict THEN dict[scheme] ELSE None

\* ------------------------------------------------------------ exceptions
NoExc == [cls |-> None, addr |-> None, timeout |-> NoTime, text |-> None]

\* ValueError("unknown scheme %r in address %r" % (scheme, addr))
UnknownScheme(scheme, addr) ==
    [cls |-> "ValueError", addr |-> addr, timeout |-> NoTime, text |-> scheme]

\* the error parse_address raises, propagated unchanged
ParseError(addr) ==
    [cls |-> "ParseError", addr |-> addr, timeout |-> NoTime, text |-> None]

\* an exception of the connector that is neither EnvironmentError nor
\* gen.TimeoutError
OtherError(cls) ==
    [cls |-> cls, addr |-> None, timeout |-> NoTime, text |-> None]

\* str(e) of an EnvironmentError: its message, possibly empty
EnvError(msg) == [cls |-> "EnvironmentError", msg |-> msg]
Str(e) == e.msg

\* truth value of `error` in `error or "..."`: None and "" are false
Truthy(error) == error # None /\ error # ""

\* _raise(error): IOError("Timed out trying to connect to %r after %s s: %s")
RaiseTimeout(addr, timeout, error) ==
    [cls |-> "IOError", addr |-> addr, timeout |-> timeout,
     text |-> IF Truthy(error) THEN error ELSE Placeholder]

\* ------------------------------------------------------------------ Comm
NoComm == [connector |-> None, loc |-> None, deserialize |-> FALSE, attempt |-> 0]

\* the Comm a connector's attempt yields: connector.connect(loc, deserialize)
MakeComm(connector, loc, deserialize, attempt) ==
    [connector |-> connector, loc |-> loc, deserialize |-> deserialize,
     attempt |-> attempt]

\* ------------------------------------------------------- connect() state
IdleCall ==
    [pc |-> "idle", addr |-> None, timeout |-> NoTime, deserialize |-> FALSE,
     scheme |-> None, loc |-> None, connector |-> None, lookups |-> 0,
     start |-> NoTime, deadline |-> NoTime, error |-> None,
     astart |-> NoTime, bound |-> 0, wake |-> NoTime, slept |-> NoTime,
     attempts |-> 0, sleeps |-> 0, hist |-> <<>>, lastSeen |-> None,
     shortSleep |-> FALSE, ownTmo |-> FALSE, comm |-> NoComm, exc |-> NoExc, endedAt |-> NoTime]

\* ---------------------------------------------------------------- Listener
\* the variable lsn is the Listener the latest successful listen() returned;
\* scope is the position of a `with listener:` statement over it
NoListener ==
    [cls |-> None, loc |-> None, handler |-> None, deserialize |-> FALSE,
     listening |-> FALSE, starts |-> 0, stops |-> 0, last |-> None,
     explicit |-> 0,
     scope |-> "none", enterStarts |-> 0, exitStops |-> 0,
     bodyExc |-> None, propagated |-> None]

\* listener_class(loc, handle_comm, deserialize): the object exists, it
\* listens only once start() is called
NewListener(cls, loc, handle_comm, deserialize) ==
    [NoListener EXCEPT !.cls = cls, !.loc = loc, !.handler = handle_comm,
                       !.deserialize = deserialize, !.scope = "out"]

\* Listener.start(): start listening for incoming connections
ListenerStart(l) ==
    [l EXCEPT !.listening = TRUE, !.starts = @ + 1, !.last = "start"]

\* variant: stop() leaves the Listener accepting
ListenerStopStillAccepts(l) == [l EXCEPT !.stops = @ + 1, !.last = "stop"]

\* Listener.stop(): stop listening
ListenerStop(l) ==
    [l EXCEPT !.listening = FALSE, !.stops = @ + 1, !.last = "stop"]

\* connectors = {...}; listeners = {...}: filled in by the transports
Registries == [Schemes -> {TRUE, FALSE}]
ConnectorOf(scheme) == "connector:" \o scheme
ListenerClassOf(scheme) == "listener:" \o scheme
ConnectorsDict(reg) == [s \in {x \in Schemes : reg[x]} |-> ConnectorOf(s)]
ListenersDict(reg) == [s \in {x \in Schemes : reg[x]} |-> ListenerClassOf(s)]

\* a Comm: not yet created, open or closed; handled counts the calls of the
\* Listener's handler with it, result is the outcome of the latest operation
NoCommState ==
    [state |-> "none", handler |-> None, handled |-> 0, op |-> None,
     result |-> None]

\* nothing called yet: no connect(), no listen(), no Comm
Unused ==
    /\ now = 0
    /\ call = [c \in Calls |-> IdleCall]
    /\ lsn = NoListener
    /\ lres = [n |-> 0, built |-> 0, addr |-> None, handler |-> None,
               deserialize |-> FALSE, exc |-> NoExc]
    /\ comms = [i \in 1..MaxComms |-> NoCommState]

\* the registries as the module creates them: empty
InitR ==
    /\ connectors = ConnectorsDict([s \in Schemes |-> FALSE])
    /\ listeners = ListenersDict([s \in Schemes |-> FALSE])
    /\ Unused

\* the registries after the transports registered their schemes
Init ==
    /\ \E reg \in Registries :
          /\ connectors = ConnectorsDict(reg)
          /\ listeners = ListenersDict(reg)
    /\ Unused

\* register(scheme, connector, listenerFactory): stores the pair under
\* scheme, once per scheme, before any connect() or listen() call
Register(scheme, connector, listenerFactory) ==
    /\ scheme \notin DOMAIN connectors
    /\ \A c \in Calls : call[c].pc = "idle"
    /\ lres.n = 0
    /\ connectors' = [s \in DOMAIN connectors \cup {scheme} |->
                        IF s = scheme THEN connector ELSE connectors[s]]
    /\ listeners' = [s \in DOMAIN listeners \cup {scheme} |->
                       IF s = scheme THEN listenerFactory ELSE listeners[s]]
    /\ UNCHANGED <<now, call, lsn, lres, comms>>

\* the call ends by raising exc
Raise(r, exc) == [r EXCEPT !.pc = "done", !.exc = exc, !.endedAt = now]

\* the call ends by returning comm (raise gen.Return(comm))
Return(r, comm) == [r EXCEPT !.pc = "done", !.comm = comm, !.endedAt = now]

\* variant: every attempt computes a new deadline
StartAttemptNewDeadline(r) ==
    [r EXCEPT !.pc = "await", !.attempts = @ + 1, !.astart = now,
              !.deadline = now + r.timeout, !.bound = r.timeout]

\* variant: every attempt is given the whole timeout again
StartAttemptFreshBudget(r) ==
    [r EXCEPT !.pc = "await", !.attempts = @ + 1, !.astart = now,
              !.bound = r.timeout]

\* one pass through the head of the loop: connector.connect(loc) and the
\* yield on gen.with_timeout(deadline - time(), future)
StartAttempt(r) ==
    [r EXCEPT !.pc = "await", !.attempts = @ + 1, !.astart = now,
              !.bound = r.deadline - now]

\* variant: the check for an unknown scheme is missing in connect
ConnectEnterNoCheck(r, addr, timeout, deserialize) ==
    LET p == ParseAddress(addr)
        r0 == [r EXCEPT !.addr = addr, !.timeout = timeout,
                        !.deserialize = deserialize]
    IN  IF ~p.ok THEN Raise(r0, ParseError(addr))
        ELSE StartAttempt([r0 EXCEPT !.scheme = p.scheme, !.loc = p.loc,
                                     !.lookups = @ + 1,
                                     !.connector = Get(connectors, p.scheme),
                                     !.start = now,
                                     !.deadline = now + timeout,
                                     !.error = None])

\* variant: the deadline is computed before the registry lookup
ConnectEnterDeadlineFirst(r, addr, timeout, deserialize) ==
    LET p == ParseAddress(addr)
        r0 == [r EXCEPT !.addr = addr, !.timeout = timeout,
                        !.deserialize = deserialize]
    IN  IF ~p.ok THEN Raise(r0, ParseError(addr))
        ELSE LET connector == Get(connectors, p.scheme)
                 r1 == [r0 EXCEPT !.scheme = p.scheme, !.loc = p.loc,
                                  !.lookups = @ + 1, !.start = now,
                                  !.deadline = now + timeout]
             IN  IF connector = None
                 THEN Raise(r1, UnknownScheme(p.scheme, addr))
                 ELSE StartAttempt([r1 EXCEPT !.connector = connector,
                                              !.error = None])

\* lines 142-160: parse, registry lookup, deadline, first attempt
ConnectEnter(r, addr, timeout, deserialize) ==
    LET p == ParseAddress(addr)
        r0 == [r EXCEPT !.addr = addr, !.timeout = timeout,
                        !.deserialize = deserialize]
    IN  IF ~p.ok THEN Raise(r0, ParseError(addr))
        ELSE LET connector == Get(connectors, p.scheme)
                 r1 == [r0 EXCEPT !.scheme = p.scheme, !.loc = p.loc,
                                  !.lookups = @ + 1]
             IN  IF connector = None
                 THEN Raise(r1, UnknownScheme(p.scheme, addr))
                 ELSE StartAttempt([r1 EXCEPT !.connector = connector,
                                              !.start = now,
                                              !.deadline = now + timeout,
                                              !.error = None])

\* variant: the lookup is connectors.setdefault(scheme), which adds a key
ConnectSetDefault(c, addr, timeout, deserialize) ==
    /\ call[c].pc = "idle"
    /\ now <= MaxStart
    /\ call' = [call EXCEPT ![c] = ConnectEnter(@, addr, timeout, deserialize)]
    /\ connectors' =
          LET p == ParseAddress(addr)
          IN  IF p.ok /\ p.scheme \notin DOMAIN connectors
              THEN [s \in DOMAIN connectors \cup {p.scheme} |->
                      IF s = p.scheme THEN None ELSE connectors[s]]
              ELSE connectors
    /\ UNCHANGED <<listeners, now, lsn, lres, comms>>

Connect(c, addr, timeout, deserialize) ==
    /\ call[c].pc = "idle"
    /\ now <= MaxStart
    /\ call' = [call EXCEPT ![c] = ConnectEnter(@, addr, timeout, deserialize)]
    /\ UNCHANGED <<connectors, listeners, now, lsn, lres, comms>>

\* variant: gives up when the sleep would not end before the deadline
OnEnvironmentErrorGiveUpEarly(r, e) ==
    LET r1 == [r EXCEPT !.error = Str(e), !.lastSeen = Str(e),
                        !.hist = Append(@, "env")]
    IN  IF now + RetryInterval < r.deadline
        THEN [r1 EXCEPT !.pc = "sleep", !.slept = now,
                        !.wake = now + RetryInterval]
        ELSE Raise(r1, RaiseTimeout(r1.addr, r1.timeout, r1.error))

\* variant: still retries when the error is seen exactly at the deadline
OnEnvironmentErrorInclusive(r, e) ==
    LET r1 == [r EXCEPT !.error = Str(e), !.lastSeen = Str(e),
                        !.hist = Append(@, "env")]
    IN  IF now <= r.deadline
        THEN [r1 EXCEPT !.pc = "sleep", !.slept = now,
                        !.wake = now + RetryInterval]
        ELSE Raise(r1, RaiseTimeout(r1.addr, r1.timeout, r1.error))

\* variant: retries at once, without the sleep
OnEnvironmentErrorNoSleep(r, e) ==
    LET r1 == [r EXCEPT !.error = Str(e), !.lastSeen = Str(e),
                        !.hist = Append(@, "env")]
    IN  IF now < r.deadline
        THEN [r1 EXCEPT !.pc = "await", !.attempts = @ + 1, !.astart = now,
                        !.bound = r.deadline - now]
        ELSE Raise(r1, RaiseTimeout(r1.addr, r1.timeout, r1.error))

\* variant: sleeps and retries without looking at the deadline
OnEnvironmentErrorNoDeadline(r, e) ==
    LET r1 == [r EXCEPT !.error = Str(e), !.lastSeen = Str(e),
                        !.hist = Append(@, "env")]
    IN  [r1 EXCEPT !.pc = "sleep", !.slept = now,
                   !.wake = now + RetryInterval]

\* except EnvironmentError as e (lines 163-169)
OnEnvironmentError(r, e) ==
    LET r1 == [r EXCEPT !.error = Str(e), !.lastSeen = Str(e),
                        !.hist = Append(@, "env")]
    IN  IF now < r.deadline
        THEN [r1 EXCEPT !.pc = "sleep", !.slept = now,
                        !.wake = now + RetryInterval]
        ELSE Raise(r1, RaiseTimeout(r1.addr, r1.timeout, r1.error))

\* variant: a timed-out attempt is retried like a transient failure
OnTimeoutErrorRetry(r) ==
    [r EXCEPT !.hist = Append(@, "tmo"), !.pc = "sleep", !.slept = now,
              !.wake = now + RetryInterval]

\* except gen.TimeoutError (lines 170-171)
OnTimeoutError(r) ==
    Raise([r EXCEPT !.hist = Append(@, "tmo")],
          RaiseTimeout(r.addr, r.timeout, r.error))

\* variant: the else branch does not leave the loop
OnSuccessNoBreak(r) == StartAttempt([r EXCEPT !.hist = Append(@, "ok")])

\* else: break; raise gen.Return(comm) (lines 172-175)
OnSuccess(r) ==
    Return([r EXCEPT !.hist = Append(@, "ok")],
           MakeComm(r.connector, r.loc, r.deserialize, r.attempts))

\* variant: any exception is treated as a transient one
OnOtherErrorRetry(r, cls) ==
    [r EXCEPT !.hist = Append(@, "other"), !.error = cls, !.pc = "sleep",
              !.slept = now, !.wake = now + RetryInterval]

\* any other exception leaves the try statement uncaught
OnOtherError(r, cls) ==
    Raise([r EXCEPT !.hist = Append(@, "other")], OtherError(cls))

\* the connector's future may complete while the with_timeout timer has not
\* fired: at once (an already completed future is never timed out), or later
\* up to the moment the timer fires
FutureCanComplete(r) ==
    r.pc = "await" /\ (now = r.astart \/ now <= r.astart + r.bound)

\* the timer of gen.with_timeout(timedelta(seconds=deadline - time()), ...)
\* is due
TimerDue(r) == r.pc = "await" /\ now >= r.astart + r.bound

FutureOk(c) ==
    /\ FutureCanComplete(call[c])
    /\ call' = [call EXCEPT ![c] = OnSuccess(@)]
    /\ UNCHANGED <<connectors, listeners, now, lsn, lres, comms>>

\* variant: error is one variable shared by all running calls
FutureEnvErrorShared(c, msg) ==
    /\ FutureCanComplete(call[c])
    /\ call' = [d \in Calls |->
                  IF d = c THEN OnEnvironmentError(call[d], EnvError(msg))
                  ELSE IF call[d].pc \in {"await", "sleep"}
                       THEN [call[d] EXCEPT !.error = msg]
                       ELSE call[d]]
    /\ UNCHANGED <<connectors, listeners, now, lsn, lres, comms>>

FutureEnvError(c, msg) ==
    /\ FutureCanComplete(call[c])
    /\ call' = [call EXCEPT ![c] = OnEnvironmentError(@, EnvError(msg))]
    /\ UNCHANGED <<connectors, listeners, now, lsn, lres, comms>>

\* the connector's own future fails with gen.TimeoutError
FutureTimeoutError(c) ==
    /\ FutureCanComplete(call[c])
    /\ call' = [call EXCEPT ![c] = OnTimeoutError([@ EXCEPT !.ownTmo = TRUE])]
    /\ UNCHANGED <<connectors, listeners, now, lsn, lres, comms>>

FutureOtherError(c, cls) ==
    /\ FutureCanComplete(call[c])
    /\ call' = [call EXCEPT ![c] = OnOtherError(@, cls)]
    /\ UNCHANGED <<connectors, listeners, now, lsn, lres, comms>>

\* gen.with_timeout raises gen.TimeoutError into the coroutine
AttemptTimeout(c) ==
    /\ TimerDue(call[c])
    /\ call' = [call EXCEPT ![c] = OnTimeoutError(@)]
    /\ UNCHANGED <<connectors, listeners, now, lsn, lres, comms>>

SleepDue(r) == r.pc = "sleep" /\ now >= r.wake

\* gen.sleep(0.01) returns; the loop starts the next attempt
SleepDone(c) ==
    /\ SleepDue(call[c])
    /\ call' = [call EXCEPT ![c] =
                  StartAttempt([@ EXCEPT !.sleeps = @ + 1,
                                         !.shortSleep = @ \/ now - call[c].slept < RetryInterval])]
    /\ UNCHANGED <<connectors, listeners, now, lsn, lres, comms>>

\* the clock advances when no timer is due
Tick ==
    /\ now < MaxNow
    /\ \A c \in Calls : ~TimerDue(call[c]) /\ ~SleepDue(call[c])
    /\ now' = now + 1
    /\ UNCHANGED <<connectors, listeners, call, lsn, lres, comms>>

Timeouts == 0..MaxTimeout
TimeoutsR == {0, RetryInterval + 1}

ConnectStep(c) ==
    \/ \E addr \in Addrs, timeout \in Timeouts, deserialize \in BOOLEAN :
          Connect(c, addr, timeout, deserialize)
    \/ FutureOk(c)
    \/ \E msg \in ErrTexts : FutureEnvError(c, msg)
    \/ FutureTimeoutError(c)
    \/ \E cls \in OtherErrors : FutureOtherError(c, cls)
    \/ AttemptTimeout(c)
    \/ SleepDone(c)

Next == ConnectStep(1) \/ Tick

Spec == Init /\ [][Next]_vars

\* the IOLoop keeps running: the clock advances and due timers fire
SpecLive ==
    /\ Spec
    /\ WF_vars(Tick)
    /\ WF_vars(SleepDone(1))
    /\ WF_vars(AttemptTimeout(1))

\* ------------------------------------------------------------- listen()
\* variant: listen() starts the Listener it constructs
ListenResultStarted(addr, handle_comm, deserialize) ==
    LET p == ParseAddress(addr)
    IN  IF ~p.ok THEN <<ParseError(addr), NoListener>>
        ELSE LET listener_class == Get(listeners, p.scheme)
             IN  IF listener_class = None
                 THEN <<UnknownScheme(p.scheme, addr), NoListener>>
                 ELSE <<NoExc, ListenerStart(NewListener(listener_class, p.loc,
                                                         handle_comm, deserialize))>>

\* variant: the check for an unknown scheme is missing
ListenResultFallback(addr, handle_comm, deserialize) ==
    LET p == ParseAddress(addr)
    IN  IF ~p.ok THEN <<ParseError(addr), NoListener>>
        ELSE LET listener_class == Get(listeners, p.scheme)
             IN  <<NoExc, NewListener(listener_class, p.loc,
                                      handle_comm, deserialize)>>

\* lines 187-192: the result of listen(addr, handle_comm, deserialize) as
\* <<exception, listener>>
ListenResult(addr, handle_comm, deserialize) ==
    LET p == ParseAddress(addr)
    IN  IF ~p.ok THEN <<ParseError(addr), NoListener>>
        ELSE LET listener_class == Get(listeners, p.scheme)
             IN  IF listener_class = None
                 THEN <<UnknownScheme(p.scheme, addr), NoListener>>
                 ELSE <<NoExc, NewListener(listener_class, p.loc,
                                           handle_comm, deserialize)>>

Listen(addr, handle_comm, deserialize) ==
    /\ lres.n < MaxListens
    /\ lsn.scope \in {"none", "out", "left", "failed"}
    /\ LET res == ListenResult(addr, handle_comm, deserialize)
       IN  /\ lres' = [n |-> lres.n + 1,
                       built |-> lres.built + (IF res[2] = NoListener THEN 0 ELSE 1),
                       addr |-> addr, handler |-> handle_comm,
                       deserialize |-> deserialize, exc |-> res[1]]
           /\ lsn' = IF res[1] = NoExc THEN res[2] ELSE lsn
    /\ UNCHANGED <<connectors, listeners, now, call, comms>>

\* the caller calls listener.start() / listener.stop() itself
Start ==
    /\ lsn.scope \in {"out", "body", "left", "failed"}
    /\ lsn.explicit < MaxMethodCalls
    /\ lsn' = [ListenerStart(lsn) EXCEPT !.explicit = @ + 1]
    /\ UNCHANGED <<connectors, listeners, now, call, lres, comms>>

Stop ==
    /\ lsn.scope \in {"out", "body", "left", "failed"}
    /\ lsn.explicit < MaxMethodCalls
    /\ lsn' = [ListenerStop(lsn) EXCEPT !.explicit = @ + 1]
    /\ UNCHANGED <<connectors, listeners, now, call, lres, comms>>

\* __enter__: self.start(); return self
ListenerEnter(l) ==
    [ListenerStart(l) EXCEPT !.enterStarts = @ + 1, !.scope = "body"]

\* variant: stop() is called on the normal exit only
ListenerExitNormalOnly(l, exc) ==
    IF exc = None
    THEN [ListenerStop(l) EXCEPT !.exitStops = @ + 1, !.scope = "left",
                                 !.propagated = exc]
    ELSE [l EXCEPT !.scope = "left", !.propagated = exc]

\* __exit__(*exc): self.stop(); returns None, so exc keeps propagating
ListenerExit(l, exc) ==
    [ListenerStop(l) EXCEPT !.exitStops = @ + 1, !.scope = "left",
                            !.propagated = exc]

\* `with listener:` is entered
Enter ==
    /\ lsn.scope = "out"
    /\ lsn' = ListenerEnter(lsn)
    /\ UNCHANGED <<connectors, listeners, now, call, lres, comms>>

\* start() raises inside __enter__: the with statement is not entered and
\* __exit__ is not called
EnterFails ==
    /\ lsn.scope = "out"
    /\ lsn' = [lsn EXCEPT !.starts = @ + 1, !.enterStarts = @ + 1,
                          !.scope = "failed"]
    /\ UNCHANGED <<connectors, listeners, now, call, lres, comms>>

\* the enclosed code runs to its end
BodyReturns ==
    /\ lsn.scope = "body"
    /\ lsn' = ListenerExit(lsn, None)
    /\ UNCHANGED <<connectors, listeners, now, call, lres, comms>>

\* the enclosed code raises exc
BodyRaises(exc) ==
    /\ lsn.scope = "body"
    /\ lsn' = ListenerExit([lsn EXCEPT !.bodyExc = exc], exc)
    /\ UNCHANGED <<connectors, listeners, now, call, lres, comms>>

NextL ==
    \/ \E addr \in Addrs, h \in Handlers, deserialize \in BOOLEAN :
          Listen(addr, h, deserialize)
    \/ Start
    \/ Stop
    \/ Enter
    \/ EnterFails
    \/ BodyReturns
    \/ \E exc \in OtherErrors \cup {"IOError"} : BodyRaises(exc)

SpecL == Init /\ [][NextL]_vars

\* --------------------------------------------------- concurrent connects
\* two connect() coroutines on one IOLoop, interleaved at their yields
AddrsC == {"tcp://a", "zmq://a"}
ErrTextsC == {"refused", "reset"}

ConnectStepC(c) ==
    \/ \E addr \in AddrsC, timeout \in TimeoutsR : Connect(c, addr, timeout, TRUE)
    \/ FutureOk(c)
    \/ \E msg \in ErrTextsC : FutureEnvError(c, msg)
    \/ AttemptTimeout(c)
    \/ SleepDone(c)

NextC == (\E c \in Calls : ConnectStepC(c)) \/ Tick

SpecC == Init /\ [][NextC]_vars

\* ------------------------------------------------ Comm and accept loop
\* closed(): whether the channel is closed; never suspends
Closed(cm) == cm.state = "closed"

\* read(): the next message, or CommClosed on a closed channel
CommReadResult(cm) ==
    [cm EXCEPT !.op = "read",
               !.result = IF Closed(cm) THEN "CommClosed" ELSE "ok"]

\* write(msg): hands msg to the transport, or CommClosed on a closed channel
CommWriteResult(cm) ==
    [cm EXCEPT !.op = "write",
               !.result = IF Closed(cm) THEN "CommClosed" ELSE "ok"]

\* variant: close() on a closed channel fails with CommClosed
CommCloseResultRaises(cm) ==
    [cm EXCEPT !.op = "close", !.state = "closed",
               !.result = IF Closed(cm) THEN "CommClosed" ELSE "ok"]

\* close(): flushes and releases the transport; a no-op on a closed channel
CommCloseResult(cm) ==
    [cm EXCEPT !.op = "close", !.state = "closed",
               !.result = IF Closed(cm) THEN "noop" ELSE "ok"]

\* abort(): releases the transport at once; always safe to call
CommAbortResult(cm) ==
    [cm EXCEPT !.op = "abort", !.state = "closed", !.result = "ok"]

CommRead(i) ==
    /\ comms[i].state # "none"
    /\ comms' = [comms EXCEPT ![i] = CommReadResult(@)]
    /\ UNCHANGED <<connectors, listeners, now, call, lsn, lres>>

CommWrite(i) ==
    /\ comms[i].state # "none"
    /\ comms' = [comms EXCEPT ![i] = CommWriteResult(@)]
    /\ UNCHANGED <<connectors, listeners, now, call, lsn, lres>>

CommClose(i) ==
    /\ comms[i].state # "none"
    /\ comms' = [comms EXCEPT ![i] = CommCloseResult(@)]
    /\ UNCHANGED <<connectors, listeners, now, call, lsn, lres>>

CommAbort(i) ==
    /\ comms[i].state # "none"
    /\ comms' = [comms EXCEPT ![i] = CommAbortResult(@)]
    /\ UNCHANGED <<connectors, listeners, now, call, lsn, lres>>

\* a started Listener accepts a connection: it makes a new Comm and calls
\* handle_comm with it
Accept(i) ==
    /\ lsn.listening
    /\ comms[i].state = "none"
    /\ \A j \in 1..(i - 1) : comms[j].state # "none"
    /\ comms' = [comms EXCEPT ![i] = [@ EXCEPT !.state = "open",
                                               !.handler = lsn.handler,
                                               !.handled = @ + 1]]
    /\ UNCHANGED <<connectors, listeners, now, call, lsn, lres>>

NextA ==
    \/ \E h \in Handlers : Listen("tcp://a", h, TRUE)
    \/ Start
    \/ Stop
    \/ \E i \in 1..MaxComms :
          Accept(i) \/ CommRead(i) \/ CommWrite(i) \/ CommClose(i) \/ CommAbort(i)

SpecA == Init /\ [][NextA]_vars

\* ------------------------------------------------- registry, then calls
\* registration at start-up, followed by connect() and listen() calls
ConnectorValues == {ConnectorOf(s) : s \in Schemes}

ConnectStepR(c) ==
    \/ \E addr \in Addrs, timeout \in TimeoutsR : Connect(c, addr, timeout, TRUE)
    \/ FutureOk(c)
    \/ FutureEnvError(c, "refused")
    \/ AttemptTimeout(c)
    \/ SleepDone(c)

NextR ==
    \/ \E s \in Schemes, connector \in ConnectorValues :
          Register(s, connector, ListenerClassOf(s))
    \/ ConnectStepR(1)
    \/ \E addr \in Addrs : Listen(addr, "h1", TRUE)
    \/ Tick

SpecR == InitR /\ [][NextR]_vars

\* ---------------------------------------------------------------- claims
Done(r) == r.pc = "done"
Returned(r) == Done(r) /\ r.exc = NoExc
Resolved(r) == r.connector # None
Count(hist, kind) == Cardinality({i \in 1..Len(hist) : hist[i] = kind})
Last(hist) == hist[Len(hist)]
Elapsed(r) == r.endedAt - r.start
\* every outcome the connector itself produced was a transient failure or a
\* success
OnlyTransient(r) == Count(r.hist, "other") = 0 /\ ~r.ownTmo

\* C1: a connect call on an address whose scheme has no connector has ended
\* with the unknown-scheme ValueError, no start time or deadline was computed
\* and no attempt or sleep was made, whatever the timeout
C1_UnknownSchemeFailsAtOnce ==
    \A c \in Calls :
        LET r == call[c]
            p == ParseAddress(r.addr)
        IN  (r.pc # "idle" /\ p.ok /\ Get(connectors, p.scheme) = None)
            => /\ Done(r)
               /\ r.exc = UnknownScheme(p.scheme, r.addr)
               /\ r.start = NoTime /\ r.deadline = NoTime
               /\ r.attempts = 0 /\ r.sleeps = 0 /\ r.hist = <<>>
               /\ r.endedAt <= MaxStart

C1_Witness ==
    \E c \in Calls :
        /\ Done(call[c]) /\ call[c].exc.cls = "ValueError"
        /\ call[c].timeout = MaxTimeout /\ call[c].endedAt = 1

\* C2: when the first attempt of a call succeeds the call has returned the
\* Comm of attempt 1 (made by the scheme's connector for the parsed location)
\* after one attempt and no sleep
C2_FirstAttemptSuccess ==
    \A c \in Calls :
        LET r == call[c]
        IN  (Len(r.hist) >= 1 /\ r.hist[1] = "ok")
            => /\ Returned(r)
               /\ r.comm = MakeComm(connectors[ParseAddress(r.addr).scheme],
                                     ParseAddress(r.addr).loc, r.deserialize, 1)
               /\ r.attempts = 1 /\ r.sleeps = 0 /\ r.hist = <<"ok">>

C2_Witness ==
    \E c \in Calls :
        /\ Returned(call[c]) /\ call[c].hist = <<"ok">>
        /\ call[c].scheme = "zmq" /\ call[c].endedAt = call[c].start

\* C3: a call whose connector only failed transiently or succeeded and that
\* ended less than timeout after its start has returned the Comm of attempt
\* N+1 after N transient failures and N sleeps, none shorter than the retry
\* interval
C3_TransientThenSuccess ==
    \A c \in Calls :
        LET r == call[c]
            N == Count(r.hist, "env")
        IN  (Done(r) /\ Resolved(r) /\ OnlyTransient(r)
                /\ Elapsed(r) < r.timeout)
            => /\ Returned(r)
               /\ r.hist = [i \in 1..(N + 1) |-> IF i <= N THEN "env" ELSE "ok"]
               /\ r.comm.attempt = N + 1
               /\ r.sleeps = N
               /\ ~r.shortSleep
               /\ Elapsed(r) >= N * RetryInterval

C3_Witness ==
    \E c \in Calls :
        /\ Returned(call[c]) /\ Count(call[c].hist, "env") = 2
        /\ Elapsed(call[c]) < call[c].timeout

\* C4: a call whose connector never did anything but fail transiently (or
\* not answer) has ended with the timeout IOError, at an elapsed time from
\* timeout to timeout + RetryInterval
C4_AlwaysTransientTimesOut ==
    \A c \in Calls :
        LET r == call[c]
        IN  (Done(r) /\ Resolved(r) /\ OnlyTransient(r)
                /\ Count(r.hist, "ok") = 0)
            => /\ r.exc.cls = "IOError"
               /\ Elapsed(r) >= r.timeout
               /\ Elapsed(r) <= r.timeout + RetryInterval

C4_Witness ==
    \E c \in Calls :
        /\ Done(call[c]) /\ call[c].exc.cls = "IOError"
        /\ call[c].hist = <<"env", "env", "env">>
        /\ Elapsed(call[c]) > call[c].timeout

\* C5: whatever the connector does, a call that computed its deadline is not
\* running later than deadline + RetryInterval and did not end later
C5_EndsByDeadlinePlusSleep ==
    \A c \in Calls :
        LET r == call[c]
        IN  r.deadline # NoTime
            => /\ r.pc \in {"await", "sleep"} => now <= r.deadline + RetryInterval
               /\ Done(r) => r.endedAt <= r.deadline + RetryInterval

C5_Witness ==
    \E c \in Calls :
        /\ Done(call[c]) /\ call[c].deadline # NoTime
        /\ call[c].endedAt > call[c].deadline
        /\ now > call[c].deadline + RetryInterval

\* C6: a timeout IOError carries the address and the timeout of the call, and
\* its last part is the text of the latest transient error the call saw, or
\* the placeholder when it saw none
C6_TimeoutCarriesLastError ==
    \A c \in Calls :
        LET r == call[c]
        IN  (Done(r) /\ r.exc.cls = "IOError")
            => /\ r.exc.addr = r.addr
               /\ r.exc.timeout = r.timeout
               /\ r.exc.text = IF Count(r.hist, "env") > 0
                                 THEN r.lastSeen ELSE Placeholder

\* C7: an error of the connector that is neither transient nor a timeout
\* ends the call at once with that error: it is the last outcome, it is not
\* stored in error, no sleep and no attempt follows it; a parse error ends
\* the call before any registry lookup or attempt
C7_OtherErrorsPropagate ==
    \A c \in Calls :
        LET r == call[c]
            N == Count(r.hist, "env")
        IN  /\ Count(r.hist, "other") > 0
               => /\ Done(r) /\ Last(r.hist) = "other"
                  /\ r.exc.cls \in OtherErrors
                  /\ r.error = r.lastSeen
                  /\ Len(r.hist) = N + 1
                  /\ r.sleeps = N /\ r.attempts = N + 1
                  /\ r.comm = NoComm
            /\ (r.pc # "idle" /\ ~ParseAddress(r.addr).ok)
               => /\ Done(r) /\ r.exc = ParseError(r.addr)
                  /\ r.lookups = 0 /\ r.attempts = 0 /\ r.sleeps = 0
                  /\ r.scheme = None /\ r.connector = None

C7_Witness ==
    \E c \in Calls :
        /\ Done(call[c]) /\ call[c].hist = <<"env", "other">>
        /\ call[c].exc = OtherError("TypeError")
        /\ now < call[c].deadline

\* C8: a with statement over a Listener has called start() once when its
\* body runs, and start() once and stop() once when it is left, whether the
\* body returned or raised; stop() is never called before start(), and the
\* exception of the body leaves the statement
C8_ScopeStartsAndStopsOnce ==
    /\ lsn.exitStops <= lsn.enterStarts
    /\ lsn.scope \in {"none", "out"} => lsn.enterStarts = 0 /\ lsn.exitStops = 0
    /\ lsn.scope = "body" => lsn.enterStarts = 1 /\ lsn.exitStops = 0
    /\ lsn.scope = "left" => /\ lsn.enterStarts = 1 /\ lsn.exitStops = 1
                             /\ lsn.propagated = lsn.bodyExc

C8_Witness ==
    /\ lsn.scope = "left" /\ lsn.bodyExc = "IOError"
    /\ lsn.enterStarts = 1 /\ lsn.exitStops = 1

ListenCalled == lres'.n = lres.n + 1

\* C9: a listen() call that returns yields a Listener of the scheme's class
\* for the parsed location, the handler and the deserialize flag, on which
\* start() was not called and which is not listening; a Listener listens
\* only after a start() call
C9_ListenDoesNotStart ==
    /\ [][(ListenCalled /\ lres'.exc = NoExc)
            => LET p == ParseAddress(lres'.addr)
               IN  /\ lsn'.cls = listeners[p.scheme]
                   /\ lsn'.loc = p.loc
                   /\ lsn'.handler = lres'.handler
                   /\ lsn'.deserialize = lres'.deserialize
                   /\ lsn'.starts = 0 /\ lsn'.stops = 0
                   /\ ~lsn'.listening]_vars
    /\ [](lsn.listening => lsn.starts > 0)

C9_Witness ==
    /\ lres.exc = NoExc /\ lres.n > 0
    /\ lsn.scope = "out" /\ lsn.starts = 0 /\ ~lsn.listening
    /\ lsn.loc = "b" /\ lsn.handler = "h2" /\ lsn.deserialize

\* C10: a listen() call on an address whose scheme has no listener class
\* fails with the unknown-scheme ValueError and constructs no Listener
C10_ListenUnknownScheme ==
    [][(ListenCalled /\ ParseAddress(lres'.addr).ok
           /\ Get(listeners, ParseAddress(lres'.addr).scheme) = None)
        => /\ lres'.exc = UnknownScheme(ParseAddress(lres'.addr).scheme, lres'.addr)
           /\ lres'.built = lres.built
           /\ lsn' = lsn]_vars

C10_Witness ==
    /\ lres.exc.cls = "ValueError" /\ lres.n = 2 /\ lres.built = 1

\* resolveConnector / resolveListenerFactory as connect() and listen() do it
ConnectResolves(addr) ==
    ConnectEnter(IdleCall, addr, 0, TRUE).exc.cls # "ValueError"
ListenResolves(addr) == ListenResult(addr, "h1", TRUE)[1].cls # "ValueError"

C12_ClosedIsPermanent ==
    /\ [](\A i \in 1..MaxComms :
            LET cm == comms[i]
            IN  /\ cm.op \in {"close", "abort"} => Closed(cm)
                /\ (Closed(cm) /\ cm.op \in {"read", "write"})
                      => cm.result = "CommClosed"
                /\ cm.op = "close" => cm.result \in {"ok", "noop"})
    /\ [][\A i \in 1..MaxComms :
            /\ Closed(comms[i]) => Closed(comms'[i])
            /\ (Closed(comms[i]) /\ comms'[i] # comms[i])
                  => \/ comms'[i].op \in {"read", "write"}
                           /\ comms'[i].result = "CommClosed"
                     \/ comms'[i].op = "close" /\ comms'[i].result = "noop"
                     \/ comms'[i].op = "abort" /\ comms'[i].result = "ok"]_vars

C12_Witness ==
    /\ Closed(comms[1]) /\ comms[1].op = "close" /\ comms[1].result = "noop"
    /\ Closed(comms[2]) /\ comms[2].op = "write"
    /\ comms[2].result = "CommClosed"

\* C13: the handler is called once with every accepted Comm, and only while
\* the latest call on the Listener is start(); stop() leaves the Comms
\* already given to the handler as they are
C13_HandlerOncePerAccept ==
    /\ [](\A i \in 1..MaxComms :
            /\ comms[i].state # "none"
                  => comms[i].handled = 1 /\ comms[i].handler \in Handlers
            /\ comms[i].state = "none" => comms[i].handled = 0)
    /\ [][\A i \in 1..MaxComms :
            comms'[i].handled # comms[i].handled
               => /\ lsn.last = "start" /\ lsn.starts > 0
                  /\ comms'[i].handler = lsn.handler]_vars
    /\ [][lsn'.stops > lsn.stops => comms' = comms]_vars

C13_Witness ==
    /\ lsn.last = "stop" /\ lsn.stops = 1 /\ ~lsn.listening
    /\ comms[1].state = "open" /\ comms[1].handled = 1
    /\ comms[2].state = "none"

\* C14: the bound of an attempt is deadline - now at its start, the deadline
\* is start + timeout for the whole call, and every retry gets a bound
\* strictly smaller than the attempt before it
C14_ShrinkingBound ==
    /\ [](\A c \in Calls :
            LET r == call[c]
            IN  r.attempts > 0
                => /\ r.deadline = r.start + r.timeout
                   /\ r.bound = r.deadline - r.astart
                   /\ r.bound <= r.timeout
                   /\ r.attempts > 1 => r.bound < r.timeout)
    /\ [][\A c \in Calls :
            (call[c].attempts > 0 /\ call'[c].attempts = call[c].attempts + 1)
            => /\ call'[c].deadline = call[c].deadline
               /\ call'[c].bound = call'[c].deadline - now
               /\ call'[c].bound < call[c].bound]_vars

C14_Witness ==
    \E c \in Calls :
        /\ call[c].pc = "await" /\ call[c].attempts = 3
        /\ call[c].bound = 1 /\ call[c].timeout = MaxTimeout

EnvObserved(c) == call'[c].hist = Append(call[c].hist, "env")

\* C15: a transient error seen before the deadline is stored in error and
\* followed by one sleep of RetryInterval and then a new attempt, the call
\* goes on; seen at or after the deadline it ends the call with the timeout
\* IOError; the transient error itself never leaves connect
C15_TransientIsRetried ==
    /\ [](\A c \in Calls : call[c].exc.cls # "EnvironmentError")
    /\ [][\A c \in Calls :
            EnvObserved(c)
            => /\ call'[c].error \in ErrTexts
               /\ call'[c].error = call'[c].lastSeen
               /\ now < call[c].deadline
                     => /\ call'[c].pc = "sleep" /\ call'[c].exc = NoExc
                        /\ call'[c].wake = now + RetryInterval
                        /\ call'[c].attempts = call[c].attempts
               /\ now >= call[c].deadline
                     => Done(call'[c]) /\ call'[c].exc.cls = "IOError"]_vars
    /\ [][\A c \in Calls :
            (call[c].pc = "sleep" /\ call'[c] # call[c])
            => /\ call'[c].pc = "await"
               /\ call'[c].attempts = call[c].attempts + 1
               /\ call'[c].sleeps = call[c].sleeps + 1
               /\ now = call[c].slept + RetryInterval
               /\ call'[c].error = call[c].error]_vars

C15_Witness ==
    \E c \in Calls :
        /\ call[c].pc = "await" /\ call[c].hist = <<"env", "env">>
        /\ call[c].error = "reset" /\ call[c].sleeps = 2
        /\ now < call[c].deadline

\* C16: a call that ended with the timeout IOError ended at or after its
\* deadline
C16_TimeoutOnlyAtDeadline ==
    \A c \in Calls :
        (Done(call[c]) /\ call[c].exc.cls = "IOError")
        => call[c].endedAt >= call[c].deadline

\* C17: with the clock advancing and timers firing, a call that was made
\* ends; an ended call does nothing more; no sleep starts once the deadline
\* is reached, and a failure seen at or after the deadline ends the call
\* with an error
C17_ConnectTerminates ==
    /\ (call[1].pc # "idle") ~> Done(call[1])
    /\ [][\A c \in Calls : Done(call[c]) => call'[c] = call[c]]_vars
    /\ [](\A c \in Calls :
            call[c].pc = "sleep" => call[c].slept < call[c].deadline)
    /\ [][\A c \in Calls :
            (Resolved(call[c]) /\ call'[c].hist # call[c].hist
                /\ now >= call[c].deadline /\ Last(call'[c].hist) # "ok")
            => Done(call'[c]) /\ call'[c].exc # NoExc]_vars

C17_Witness ==
    \E c \in Calls :
        /\ Done(call[c]) /\ call[c].hist = <<"env", "tmo">> /\ ~call[c].ownTmo
        /\ call[c].endedAt = call[c].deadline /\ call[c].exc.cls = "IOError"
        /\ now > call[c].endedAt

\* C18: a call that resolved its scheme has started one attempt more than it
\* has completed sleeps, while it runs and when it has ended; every sleep
\* follows a transient failure and is followed by one attempt; nothing
\* follows a success
C18_AttemptsAreSleepsPlusOne ==
    \A c \in Calls :
        LET r == call[c]
            N == Count(r.hist, "env")
        IN  Resolved(r)
            => /\ r.attempts = r.sleeps + 1
               /\ r.pc = "await" => Len(r.hist) = r.sleeps /\ N = r.sleeps
               /\ r.pc = "sleep" => Len(r.hist) = r.attempts /\ N = r.attempts
               /\ Done(r) => /\ Len(r.hist) = r.attempts
                              /\ N \in {r.sleeps, r.sleeps + 1}
               /\ Count(r.hist, "ok") > 0
                     => Returned(r) /\ Last(r.hist) = "ok" /\ N = r.sleeps

C18_Witness ==
    \E c \in Calls :
        /\ Done(call[c]) /\ call[c].attempts = 3 /\ call[c].sleeps = 2
        /\ call[c].exc.cls \in OtherErrors

\* C19: a step of one connect call leaves the other call as it is, and each
\* call's deadline, stored error, timeout IOError and returned Comm are made
\* of its own arguments and of the errors it saw itself
C19_CallsAreIndependent ==
    /\ [][\A c \in Calls : \A d \in Calls \ {c} :
            call'[c] # call[c] => call'[d] = call[d]]_vars
    /\ [](\A c \in Calls :
            LET r == call[c]
            IN  /\ r.attempts > 0 => r.deadline = r.start + r.timeout
                /\ r.error = r.lastSeen
                /\ (Done(r) /\ r.exc.cls = "IOError")
                      => /\ r.exc.addr = r.addr /\ r.exc.timeout = r.timeout
                         /\ r.exc.text \in {r.lastSeen, Placeholder}
                /\ (Done(r) /\ Count(r.hist, "ok") > 0)
                      => r.comm = MakeComm(r.connector, r.loc, r.deserialize,
                                           r.attempts))

C19_Witness ==
    /\ Done(call[1]) /\ call[1].exc.cls = "IOError"
    /\ call[1].exc.text = "refused" /\ call[1].timeout = 0
    /\ Returned(call[2]) /\ call[2].lastSeen = "reset"
    /\ call[2].comm.attempt = 2
    /\ call[2].start < call[1].start /\ call[1].endedAt < call[2].endedAt

\* C20: no step of a connect() or listen() call, successful or failed,
\* changes the registered schemes or the values registered for them
C20_CallsOnlyReadRegistry ==
    [][(call' # call \/ lres' # lres \/ lsn' # lsn)
        => /\ connectors' = connectors /\ listeners' = listeners
           /\ DOMAIN connectors' = DOMAIN connectors
           /\ DOMAIN listeners' = DOMAIN listeners]_vars

C20_Witness ==
    /\ DOMAIN connectors = {"tcp"} /\ DOMAIN listeners = {"tcp"}
    /\ Done(call[1]) /\ call[1].exc.cls = "ValueError"
    /\ call[1].scheme = "zmq"
    /\ lres.n = 2 /\ lres.built = 1 /\ lres.exc.cls = "ValueError"

====
